---- MODULE Spec2Model ----
(***************************************************************************)
(* Model of the serverless data pipeline (function/main.py, utils.py,      *)
(* config.py): bounded-retry fetch, per-record validation and              *)
(* transformation, chunked batch writes to Firestore and the execution     *)
(* summary.                                                                *)
(*                                                                         *)
(* Python values are modelled as tagged records [t, n, s, f]: t is the     *)
(* type tag, n the numeric payload (int, bool), s the character sequence   *)
(* of a str, f the mapping of a dict.  Strings that the code inspects      *)
(* (strip, split, formatting of the document id) are sequences of          *)
(* one-character strings.                                                  *)
(***************************************************************************)
EXTENDS Integers, Sequences, FiniteSets, TLC

(***************************************************************************)
(* Bounds of the model.                                                    *)
(***************************************************************************)
\* largest max_attempts handed to retry_with_backoff
MaxAttempts == 3
\* longest response body (number of raw records) the API returns
MaxFetch == 11
\* longest document sequence handed directly to batch_write_to_firestore
MaxDocs == 12
\* largest batch_size handed directly to batch_write_to_firestore
MaxBatch == 5

(***************************************************************************)
(* Program constants (config.py, utils.py).                                *)
(***************************************************************************)
MAX_ITEMS_TO_PROCESS == 10
BATCH_SIZE == 5
API_RETRY_BACKOFF == 2
DEFAULT_RETRY_DELAY == 2
ERRORS_LIMIT == 10

(***************************************************************************)
(* Python values.                                                          *)
(***************************************************************************)
NoFields == [k \in {} |-> 0]

PyInt(i) == [t |-> "int", n |-> i, s |-> <<>>, f |-> NoFields]
PyBool(b) == [t |-> "bool", n |-> IF b THEN 1 ELSE 0, s |-> <<>>, f |-> NoFields]
PyStr(cs) == [t |-> "str", n |-> 0, s |-> cs, f |-> NoFields]
PyNone == [t |-> "none", n |-> 0, s |-> <<>>, f |-> NoFields]
PyDict(m) == [t |-> "dict", n |-> 0, s |-> <<>>, f |-> m]

\* isinstance(v, int): bool is a subclass of int
IsInstanceInt(v) == v.t \in {"int", "bool"}
\* isinstance(v, str)
IsInstanceStr(v) == v.t = "str"

Whitespace == {" ", "\t", "\n"}

RECURSIVE LStrip(_)
LStrip(cs) ==
    IF cs = <<>> THEN <<>>
    ELSE IF Head(cs) \in Whitespace THEN LStrip(Tail(cs))
    ELSE cs

RECURSIVE RStrip(_)
RStrip(cs) ==
    IF cs = <<>> THEN <<>>
    ELSE IF cs[Len(cs)] \in Whitespace THEN RStrip(SubSeq(cs, 1, Len(cs) - 1))
    ELSE cs

\* str.strip()
Strip(cs) == RStrip(LStrip(cs))

\* str.split(): the maximal runs of non-whitespace characters, in order
RECURSIVE SplitFrom(_, _, _)
SplitFrom(cs, word, acc) ==
    IF cs = <<>> THEN (IF word = <<>> THEN acc ELSE Append(acc, word))
    ELSE IF Head(cs) \in Whitespace
         THEN SplitFrom(Tail(cs), <<>>, IF word = <<>> THEN acc ELSE Append(acc, word))
         ELSE SplitFrom(Tail(cs), Append(word, Head(cs)), acc)

Split(cs) == SplitFrom(cs, <<>>, <<>>)

Digits == <<"0", "1", "2", "3", "4", "5", "6", "7", "8", "9">>

RECURSIVE NatToStr(_)
NatToStr(i) ==
    IF i < 10 THEN <<Digits[i + 1]>>
    ELSE NatToStr(i \div 10) \o <<Digits[(i % 10) + 1]>>

\* str(v) as an f-string formats it
Format(v) ==
    CASE v.t = "int" -> IF v.n < 0 THEN <<"-">> \o NatToStr(0 - v.n) ELSE NatToStr(v.n)
      [] v.t = "bool" -> IF v.n = 1 THEN <<"T", "r", "u", "e">>
                         ELSE <<"F", "a", "l", "s", "e">>
      [] v.t = "str" -> v.s
      [] OTHER -> <<"N", "o", "n", "e">>

(***************************************************************************)
(* utils.validate_post_data: "true", "false", or "raise" when the          *)
(* membership test or .get fails on a value that is not a mapping.         *)
(***************************************************************************)
RequiredFields == <<"userId", "id", "title", "body">>

\* `field not in data` on a dict; on None/int/bool the test raises TypeError
\* and on a str it is a substring test
MissingField(data) ==
    \E j \in 1..Len(RequiredFields) : RequiredFields[j] \notin DOMAIN data.f

validate_post_data(data) ==
    IF data.t \in {"none", "int", "bool"} THEN "raise"
    ELSE IF data.t = "str" THEN "false"
    ELSE IF MissingField(data) THEN "false"
    ELSE IF ~IsInstanceInt(data.f["userId"]) THEN "false"
    ELSE IF ~IsInstanceInt(data.f["id"]) THEN "false"
    ELSE IF ~IsInstanceStr(data.f["title"]) \/ Strip(data.f["title"].s) = <<>> THEN "false"
    ELSE IF ~IsInstanceStr(data.f["body"]) \/ Strip(data.f["body"].s) = <<>> THEN "false"
    ELSE "true"

(***************************************************************************)
(* utils.transform_post_data.  fetched_at is the SERVER_TIMESTAMP sentinel *)
(* (resolved by the store at commit); processed_at is the client clock.    *)
(***************************************************************************)
ServerTimestamp == <<"SERVER_TIMESTAMP">>

transform_post_data(data, now) ==
    [user_id |-> data.f["userId"],
     post_id |-> data.f["id"],
     title |-> Strip(data.f["title"].s),
     body |-> Strip(data.f["body"].s),
     title_length |-> Len(Strip(data.f["title"].s)),
     body_length |-> Len(Strip(data.f["body"].s)),
     word_count |-> Len(Split(Strip(data.f["body"].s))),
     fetched_at |-> ServerTimestamp,
     processed_at |-> <<"iso", now>>,
     source |-> "jsonplaceholder",
     status |-> "processed"]

(***************************************************************************)
(* State.                                                                  *)
(***************************************************************************)
VARIABLES
    \* Config (class attributes read from the environment, config.py)
    PROJECT_ID, API_RETRY_MAX_ATTEMPTS, API_RETRY_DELAY,
    \* main: position, locals and the returned pair
    pc, raw_data, processed_data, stored_count, errors, summary, status_code,
    \* what process_data logged: its local error list and the indices it validated
    logged_errors, validated,
    \* the stages the run went through with their outcomes, the number of HTTP
    \* requests it issued, and the clock
    stages, requests, clock, start_time,
    \* frame of retry_with_backoff
    rpc, max_attempts, backoff_factor, exceptions, attempt, delay, last_exception,
    outcomes, sleeps, result, exc,
    \* frame of batch_write_to_firestore, and the Firestore collection
    bpc, bw_items, batch_size, i, total_written, commits, bw_ret, bw_exc, collection,
    \* frame of batch_write_to_firestore in a second, concurrent invocation
    peer,
    \* frame of validate_post_data called on its own: position, argument, result
    vpc, v_data, v_ret

configVars == <<PROJECT_ID, API_RETRY_MAX_ATTEMPTS, API_RETRY_DELAY>>
mainVars == <<pc, raw_data, processed_data, stored_count, errors, summary, status_code,
              logged_errors, validated, stages, requests, start_time>>
retryVars == <<rpc, max_attempts, backoff_factor, exceptions, attempt, delay,
               last_exception, outcomes, sleeps, result, exc>>
batchVars == <<bpc, bw_items, batch_size, i, total_written, commits, bw_ret, bw_exc,
               collection>>
peerVars == <<peer>>
validateVars == <<vpc, v_data, v_ret>>
vars == <<configVars, mainVars, retryVars, batchVars, clock, peerVars, validateVars>>

Min(a, b) == IF a < b THEN a ELSE b

(***************************************************************************)
(* Exceptions are named by their class; "RateLimited" is the plain         *)
(* Exception that handle_rate_limit raises for a 429.                      *)
(***************************************************************************)
Ancestors(e) ==
    CASE e = "RequestException" -> {"RequestException", "OSError", "Exception"}
      [] e = "HTTPError" -> {"HTTPError", "RequestException", "OSError", "Exception"}
      [] e = "RateLimited" -> {"Exception"}
      [] e = "KeyboardInterrupt" -> {"KeyboardInterrupt"}
      [] OTHER -> {e, "Exception"}

\* `except exceptions as e`: e is an instance of one of the classes
\* an except clause that catches every exception
CaughtByAnyClause(e, classes) == TRUE

CaughtBy(e, classes) == Ancestors(e) \cap classes # {}

(***************************************************************************)
(* utils.retry_with_backoff.                                               *)
(*   rpc: "idle" (not called), "attempt" (loop body about to run),         *)
(*   "sleep" (in time.sleep), "exhausted" (the for loop has ended),        *)
(*   "returned", "raised".                                                 *)
(***************************************************************************)
NoException == "None"

\* range(1, max_attempts + 1) is empty for max_attempts < 1
RetryEntry(ma) == IF 1 <= ma THEN "attempt" ELSE "exhausted"

\* line 38: a wait follows a caught failure unless the attempt was the last
WaitsAfter(att, ma) == att < ma

\* after the except clause the for loop goes on, or ends after the last attempt
AfterCaught(att, ma) == IF WaitsAfter(att, ma) THEN "sleep" ELSE "exhausted"

\* the attempt number not advanced between rounds
NextAttemptStuck(att) == att

\* line 27: the next value of range(1, max_attempts + 1)
NextAttempt(att) == att + 1

RetryFrame(ma, d, bf, classes) ==
    /\ rpc' = RetryEntry(ma)
    /\ max_attempts' = ma
    /\ backoff_factor' = bf
    /\ exceptions' = classes
    /\ attempt' = 1
    /\ delay' = d
    /\ last_exception' = NoException
    /\ outcomes' = <<>>
    /\ sleeps' = <<>>
    /\ result' = <<>>
    /\ exc' = NoException

\* One iteration of the for loop up to the return or the except clause;
\* `outs` are the outcomes func() can have.
RetryAttemptWith(outs) ==
    /\ rpc = "attempt"
    /\ attempt <= max_attempts
    /\ \E o \in outs :
        /\ outcomes' = Append(outcomes, o)
        /\ IF o.ok
           THEN /\ rpc' = "returned"
                /\ result' = o.val
                /\ UNCHANGED <<last_exception, exc>>
           ELSE IF CaughtBy(o.exc, exceptions)
           THEN /\ last_exception' = o.exc
                /\ rpc' = AfterCaught(attempt, max_attempts)
                /\ UNCHANGED <<result, exc>>
           ELSE /\ rpc' = "raised"
                /\ exc' = o.exc
                /\ UNCHANGED <<result, last_exception>>
    /\ clock' = clock + 1
    /\ UNCHANGED <<max_attempts, backoff_factor, exceptions, attempt, delay, sleeps>>
    /\ UNCHANGED <<configVars, peerVars, validateVars, batchVars>>

\* time.sleep(delay); delay *= backoff_factor.  time.sleep raises ValueError
\* for a negative length, inside the except clause, so it propagates.
RetrySleep ==
    /\ rpc = "sleep"
    /\ IF delay < 0
       THEN /\ rpc' = "raised"
            /\ exc' = "ValueError"
            /\ UNCHANGED <<sleeps, delay, attempt, clock>>
       ELSE /\ sleeps' = Append(sleeps, delay)
            /\ delay' = delay * backoff_factor
            /\ attempt' = NextAttempt(attempt)
            /\ rpc' = "attempt"
            /\ clock' = clock + delay
            /\ UNCHANGED exc
    /\ UNCHANGED <<max_attempts, backoff_factor, exceptions, last_exception, outcomes,
                   result>>
    /\ UNCHANGED <<configVars, peerVars, validateVars, mainVars, batchVars>>

\* line 45: raise last_exception (raising None is a TypeError)
RetryRaiseLast ==
    /\ rpc = "exhausted"
    /\ rpc' = "raised"
    /\ exc' = IF last_exception = NoException THEN "TypeError" ELSE last_exception
    /\ UNCHANGED <<max_attempts, backoff_factor, exceptions, attempt, delay,
                   last_exception, outcomes, sleeps, result>>
    /\ UNCHANGED <<configVars, peerVars, validateVars, mainVars, batchVars, clock>>

\* retry_with_backoff has returned or raised and its caller has consumed it
RetryFramePopped ==
    /\ rpc' = "idle"
    /\ max_attempts' = 0
    /\ backoff_factor' = 0
    /\ exceptions' = {}
    /\ attempt' = 0
    /\ delay' = 0
    /\ last_exception' = NoException
    /\ outcomes' = <<>>
    /\ sleeps' = <<>>
    /\ result' = <<>>
    /\ exc' = NoException

(***************************************************************************)
(* utils.batch_write_to_firestore and the collection it writes.            *)
(*   bpc: "idle", "loop" (at the head of the for loop), "returned",        *)
(*   "raised".  commits logs every batch.commit() with its outcome;        *)
(*   bw_ret is <<n>> once n has been returned and <<>> otherwise.          *)
(***************************************************************************)
NoDocs == [k \in {} |-> 0]

\* a key built from the processing time instead of the post id
DocIdByTime(item) == <<"p", "o", "s", "t", "_">> \o NatToStr(item.processed_at[2])

\* f"post_{item['post_id']}"
DocId(item) == <<"p", "o", "s", "t", "_">> \o Format(item.post_id)

\* a create that leaves an existing document as it is
SetDocIfAbsent(coll, item, now) ==
    [k \in DOMAIN coll \cup {DocId(item)} |->
        IF k \in DOMAIN coll THEN coll[k] ELSE [item EXCEPT !.fetched_at = <<"ts", now>>]]

\* doc_ref.set(item), the server resolving SERVER_TIMESTAMP at commit time
SetDoc(coll, item, now) ==
    [k \in DOMAIN coll \cup {DocId(item)} |->
        IF k = DocId(item) THEN [item EXCEPT !.fetched_at = <<"ts", now>>] ELSE coll[k]]

\* an atomic batch applies its writes in the order they were added
RECURSIVE ApplyBatch(_, _, _)
ApplyBatch(coll, batch_items, now) ==
    IF batch_items = <<>> THEN coll
    ELSE ApplyBatch(SetDoc(coll, Head(batch_items), now), Tail(batch_items), now)

\* the slice taken one document too long
ChunkAtOverlapping(items, start, size) ==
    SubSeq(items, start + 1, Min(start + size + 1, Len(items)))

\* line 137: items[start:start + size], start counted from 0
ChunkAt(items, start, size) ==
    SubSeq(items, start + 1, Min(start + size, Len(items)))

\* counting the chunk before its commit has succeeded
WrittenCountedEarly(written, batch_items, ok) == written + Len(batch_items)

\* line 146: total_written += len(batch_items), reached only after commit()
WrittenAfter(written, batch_items, ok) ==
    IF ok THEN written + Len(batch_items) ELSE written

\* a failure that undoes the chunks committed before it
RolledBack(coll) == NoDocs

\* lines 148-150: the except clause logs and re-raises; nothing is deleted,
\* and the failed batch applied none of its writes
AfterFailedCommit(coll) == coll

\* One iteration of the for loop; a failed commit ends in `onFailure`.
BatchCommitEnding(onFailure) ==
    /\ bpc = "loop"
    /\ i < Len(bw_items)
    /\ LET batch_items == ChunkAt(bw_items, i, batch_size) IN
       \E ok \in BOOLEAN :
        /\ commits' = Append(commits, [items |-> batch_items, ok |-> ok])
        /\ IF ok
           THEN /\ collection' = ApplyBatch(collection, batch_items, clock)
                /\ i' = i + batch_size
                /\ UNCHANGED <<bpc, bw_exc>>
           ELSE /\ bpc' = onFailure
                /\ bw_exc' = IF onFailure = "raised" THEN "GoogleAPICallError" ELSE bw_exc
                /\ i' = IF onFailure = "raised" THEN i ELSE i + batch_size
                /\ collection' = AfterFailedCommit(collection)
        /\ total_written' = WrittenAfter(total_written, batch_items, ok)
    /\ clock' = clock + 1
    /\ UNCHANGED <<bw_items, batch_size, bw_ret>>
    /\ UNCHANGED <<configVars, peerVars, validateVars, mainVars, retryVars>>

\* skip-and-continue: the failed chunk is dropped and the loop goes on
BatchCommitSkipsFailure == BatchCommitEnding("loop")

\* lines 135-150: the except clause logs and re-raises
BatchCommit == BatchCommitEnding("raised")

\* line 152: return total_written
BatchReturn ==
    /\ bpc = "loop"
    /\ i >= Len(bw_items)
    /\ bpc' = "returned"
    /\ bw_ret' = <<total_written>>
    /\ UNCHANGED <<bw_items, batch_size, i, total_written, commits, bw_exc, collection>>
    /\ UNCHANGED <<configVars, peerVars, validateVars, mainVars, retryVars, clock>>

BatchFrame(items, size) ==
    /\ bpc' = "loop"
    /\ bw_items' = items
    /\ batch_size' = size
    /\ i' = 0
    /\ total_written' = 0
    /\ bw_ret' = <<>>
    /\ bw_exc' = NoException

\* the caller has consumed the return or the exception; the log and the
\* collection stay
BatchFramePopped ==
    /\ bpc' = "idle"
    /\ bw_items' = <<>>
    /\ batch_size' = 0
    /\ i' = 0
    /\ total_written' = 0
    /\ bw_ret' = <<>>
    /\ bw_exc' = NoException

(***************************************************************************)
(* main.process_data, computed as the loop computes it.  The state of the  *)
(* loop is [items, errors, validated, raised]; raised is set when an       *)
(* exception leaves the loop body.                                         *)
(***************************************************************************)
\* raw_data[:n]
Slice(seq, n) == SubSeq(seq, 1, Min(Len(seq), n))

\* the loop body without its try/except: the first raising record aborts
ProcessItemUnguarded(st, idx, item, now) ==
    LET v == validate_post_data(item)
        seen == [st EXCEPT !.validated = Append(@, idx)]
    IN  IF v = "raise" THEN [seen EXCEPT !.raised = TRUE]
        ELSE IF v = "false"
        THEN [seen EXCEPT !.errors = Append(@, <<"Item", idx, "Validation failed">>)]
        ELSE [seen EXCEPT !.items = Append(@, transform_post_data(item, now))]

\* lines 70-85: the loop body
ProcessItem(st, idx, item, now) ==
    LET v == validate_post_data(item)
        seen == [st EXCEPT !.validated = Append(@, idx)]
    IN  IF v = "raise"
        THEN [seen EXCEPT !.errors = Append(@, <<"Item", idx, "Processing error">>)]
        ELSE IF v = "false"
        THEN [seen EXCEPT !.errors = Append(@, <<"Item", idx, "Validation failed">>)]
        ELSE [seen EXCEPT !.items = Append(@, transform_post_data(item, now))]

\* for idx, item in enumerate(items_to_process, 1)
RECURSIVE ProcessLoop(_, _, _, _)
ProcessLoop(st, items, idx, now) ==
    IF idx > Len(items) \/ st.raised THEN st
    ELSE ProcessLoop(ProcessItem(st, idx, items[idx], now), items, idx + 1, now)

\* the slice taken one record too long
ItemsToProcessOffByOne(raw) == Slice(raw, MAX_ITEMS_TO_PROCESS + 1)

\* line 66: raw_data[:Config.MAX_ITEMS_TO_PROCESS]
ItemsToProcess(raw) == Slice(raw, MAX_ITEMS_TO_PROCESS)

process_data(raw, now) ==
    ProcessLoop([items |-> <<>>, errors |-> <<>>, validated |-> <<>>, raised |-> FALSE],
                ItemsToProcess(raw), 1, now)

(***************************************************************************)
(* utils.get_execution_summary.  success_rate is the exact quotient        *)
(* total_stored * 100 / total_fetched, kept as <<numerator, denominator>>. *)
(***************************************************************************)
SuccessRate(total_stored, total_fetched) ==
    IF total_fetched > 0 THEN <<total_stored * 100, total_fetched>> ELSE <<0, 1>>

\* the status taken from the error list alone
SummaryStatusByErrors(total_stored, errs) ==
    IF Len(errs) = 0 THEN "success"
    ELSE IF total_stored > 0 THEN "partial"
    ELSE "failed"

\* line 175
SummaryStatus(total_stored, errs) ==
    IF total_stored > 0 /\ Len(errs) = 0 THEN "success"
    ELSE IF total_stored > 0 THEN "partial"
    ELSE "failed"

get_execution_summary(total_fetched, total_processed, total_stored, errs, start, now) ==
    [execution_time |-> now - start,
     start_time |-> <<"iso", start>>,
     end_time |-> <<"iso", now>>,
     items_fetched |-> total_fetched,
     items_processed |-> total_processed,
     items_stored |-> total_stored,
     success_rate |-> SuccessRate(total_stored, total_fetched),
     errors_count |-> Len(errs),
     errors |-> Slice(errs, ERRORS_LIMIT),
     status |-> SummaryStatus(total_stored, errs)]

(***************************************************************************)
(* The external API: the responses requests.get can produce.               *)
(***************************************************************************)
PostFields == {"userId", "id", "title", "body"}

ValidPost(n) ==
    PyDict([k \in PostFields |->
        CASE k = "userId" -> PyInt(1)
          [] k = "id" -> PyInt(n)
          [] k = "title" -> PyStr(<<" ", "A", " ">>)
          [] OTHER -> PyStr(<<"h", "i", " ", "y", "o">>)])

\* a post whose title is whitespace only: validation returns False
BlankTitlePost(n) ==
    PyDict([k \in PostFields |->
        CASE k = "userId" -> PyInt(1)
          [] k = "id" -> PyInt(n)
          [] k = "title" -> PyStr(<<" ", " ">>)
          [] OTHER -> PyStr(<<"h", "i", " ", "y", "o">>)])

BadKinds == {"blank_title", "not_a_mapping"}

\* a JSON null in place of a post: validation raises TypeError
BadRecord(kind, n) == IF kind = "blank_title" THEN BlankTitlePost(n) ELSE PyNone

\* the positions of a response body that may hold a bad record: its first
\* two, one in the middle, the last one under the cap and the first beyond it
BadPositions ==
    {1, 2, MAX_ITEMS_TO_PROCESS \div 2, MAX_ITEMS_TO_PROCESS, MAX_ITEMS_TO_PROCESS + 1}

BadChoices(len) ==
    UNION {[B -> BadKinds] : B \in SUBSET (BadPositions \cap 1..len)}

ResponseBody(len, bad) ==
    [n \in 1..len |-> IF n \in DOMAIN bad THEN BadRecord(bad[n], n) ELSE ValidPost(n)]

\* the JSON arrays the API can answer with
ResponseBodies ==
    UNION {{ResponseBody(len, bad) : bad \in BadChoices(len)} : len \in 0..MaxFetch}

Responses ==
    {[status |-> 200, body |-> b] : b \in ResponseBodies}
        \cup {[status |-> 429, body |-> <<>>], [status |-> 503, body |-> <<>>]}

\* utils.handle_rate_limit: the exception it raises, if any
handle_rate_limit(response) ==
    IF response.status = 429 THEN "RateLimited"
    ELSE IF response.status >= 400 THEN "HTTPError"
    ELSE NoException

Returns(v) == [ok |-> TRUE, val |-> v, exc |-> NoException]
Raises(e) == [ok |-> FALSE, val |-> <<>>, exc |-> e]

\* main.fetch_data_from_api.make_request on a response
make_request(response) ==
    IF handle_rate_limit(response) # NoException
    THEN Raises(handle_rate_limit(response))
    ELSE Returns(response.body)

\* requests.get raises (connection error, timeout) or hands back a response
MakeRequestOutcomesOn(responses) ==
    {make_request(r) : r \in responses} \cup {Raises("RequestException")}

MakeRequestOutcomes == MakeRequestOutcomesOn(Responses)

(***************************************************************************)
(* main.main.                                                              *)
(*   pc: "start", "init", "fetch", "process", "store", "summarize", "done" *)
(***************************************************************************)
RetryableInFetch == {"RequestException", "Exception"}

\* the except clause answering with the status code of a completed run
ExceptReturnsOk(e) ==
    /\ summary' = [status |-> "failed", error |-> e, execution_time |-> clock - start_time,
                   timestamp |-> <<"iso", clock>>]
    /\ status_code' = 200
    /\ pc' = "done"

\* lines 182-194: the except clause of main
Except(e) ==
    /\ summary' = [status |-> "failed", error |-> e, execution_time |-> clock - start_time,
                   timestamp |-> <<"iso", clock>>]
    /\ status_code' = 500
    /\ pc' = "done"

Goto(next) ==
    /\ pc' = next
    /\ UNCHANGED <<summary, status_code>>

\* line 150: Config.validate()
ValidateConfig ==
    /\ pc = "start"
    /\ IF PROJECT_ID = ""
       THEN /\ stages' = Append(stages, <<"config", "raised">>)
            /\ Except("ValueError")
       ELSE /\ stages' = Append(stages, <<"config", "ok">>)
            /\ Goto("init")
    /\ UNCHANGED <<raw_data, processed_data, stored_count, errors, logged_errors,
                   validated, requests, start_time>>
    /\ UNCHANGED <<configVars, peerVars, validateVars, retryVars, batchVars, clock>>

\* line 153: initialize_firestore(), which raises when the client cannot be
\* built or the health check fails
InitializeFirestore ==
    /\ pc = "init"
    /\ \E healthy \in BOOLEAN :
        IF healthy
        THEN /\ stages' = Append(stages, <<"init", "ok">>)
             /\ Goto("fetch")
        ELSE /\ stages' = Append(stages, <<"init", "raised">>)
             /\ Except("Exception")
    /\ UNCHANGED <<raw_data, processed_data, stored_count, errors, logged_errors,
                   validated, requests, start_time>>
    /\ UNCHANGED <<configVars, peerVars, validateVars, retryVars, batchVars, clock>>

\* lines 49-55: fetch_data_from_api calls retry_with_backoff
FetchCall ==
    /\ pc = "fetch"
    /\ rpc = "idle"
    /\ RetryFrame(API_RETRY_MAX_ATTEMPTS, API_RETRY_DELAY, API_RETRY_BACKOFF,
                  RetryableInFetch)
    /\ UNCHANGED <<configVars, peerVars, validateVars, mainVars, batchVars, clock>>

\* an attempt of the fetch: make_request() under retry_with_backoff
FetchAttemptWith(outs) ==
    /\ pc = "fetch"
    /\ RetryAttemptWith(outs)
    /\ requests' = requests + 1
    /\ UNCHANGED <<pc, raw_data, processed_data, stored_count, errors, summary,
                   status_code, logged_errors, validated, stages, start_time>>

FetchAttempt == FetchAttemptWith(MakeRequestOutcomes)

\* lines 57-58, 157: the fetched data reaches main
FetchReturn ==
    /\ pc = "fetch"
    /\ rpc = "returned"
    /\ raw_data' = result
    /\ stages' = Append(stages, <<"fetch", "ok">>)
    /\ Goto("process")
    /\ RetryFramePopped
    /\ UNCHANGED <<processed_data, stored_count, errors, logged_errors, validated,
                   requests, start_time>>
    /\ UNCHANGED <<configVars, peerVars, validateVars, batchVars, clock>>

\* the fetch failure swallowed: the run goes on with no records
FetchRaiseSwallowed ==
    /\ pc = "fetch"
    /\ rpc = "raised"
    /\ stages' = Append(stages, <<"fetch", "raised">>)
    /\ Goto("process")
    /\ RetryFramePopped
    /\ UNCHANGED <<raw_data, processed_data, stored_count, errors, logged_errors,
                   validated, requests, start_time>>
    /\ UNCHANGED <<configVars, peerVars, validateVars, batchVars, clock>>

\* the exception of retry_with_backoff reaches the except clause of main
FetchRaise ==
    /\ pc = "fetch"
    /\ rpc = "raised"
    /\ stages' = Append(stages, <<"fetch", "raised">>)
    /\ Except(exc)
    /\ RetryFramePopped
    /\ UNCHANGED <<raw_data, processed_data, stored_count, errors, logged_errors,
                   validated, requests, start_time>>
    /\ UNCHANGED <<configVars, peerVars, validateVars, batchVars, clock>>

\* line 161: processed_data = process_data(raw_data); its error list is
\* local to process_data and is only logged
ProcessData ==
    /\ pc = "process"
    /\ LET r == process_data(raw_data, clock) IN
        /\ logged_errors' = r.errors
        /\ validated' = r.validated
        /\ IF r.raised
           THEN /\ stages' = Append(stages, <<"process", "raised">>)
                /\ Except("TypeError")
                /\ UNCHANGED processed_data
           ELSE /\ stages' = Append(stages, <<"process", "ok">>)
                /\ processed_data' = r.items
                /\ Goto("store")
    /\ UNCHANGED <<raw_data, stored_count, errors, requests, start_time>>
    /\ UNCHANGED <<configVars, peerVars, validateVars, retryVars, batchVars, clock>>

\* lines 96-109: store_data_in_firestore returns 0 for no items without
\* touching the store, and calls batch_write_to_firestore otherwise
StoreCall ==
    /\ pc = "store"
    /\ bpc = "idle"
    /\ IF processed_data = <<>>
       THEN /\ stored_count' = 0
            /\ stages' = Append(stages, <<"store", "ok">>)
            /\ Goto("summarize")
            /\ UNCHANGED <<bpc, bw_items, batch_size, i, total_written, bw_ret, bw_exc>>
       ELSE /\ BatchFrame(processed_data, BATCH_SIZE)
            /\ UNCHANGED <<pc, stored_count, stages, summary, status_code>>
    /\ UNCHANGED <<raw_data, processed_data, errors, logged_errors, validated, requests,
                   start_time>>
    /\ UNCHANGED <<commits, collection>>
    /\ UNCHANGED <<configVars, peerVars, validateVars, retryVars, clock>>

\* lines 111-112, 165: the count reaches main
StoreReturn ==
    /\ pc = "store"
    /\ bpc = "returned"
    /\ stored_count' = bw_ret[1]
    /\ stages' = Append(stages, <<"store", "ok">>)
    /\ Goto("summarize")
    /\ BatchFramePopped
    /\ UNCHANGED <<raw_data, processed_data, errors, logged_errors, validated, requests,
                   start_time>>
    /\ UNCHANGED <<commits, collection>>
    /\ UNCHANGED <<configVars, peerVars, validateVars, retryVars, clock>>

\* the commit failure swallowed: the count so far is returned to main
StoreRaiseSwallowed ==
    /\ pc = "store"
    /\ bpc = "raised"
    /\ stored_count' = total_written
    /\ stages' = Append(stages, <<"store", "ok">>)
    /\ Goto("summarize")
    /\ BatchFramePopped
    /\ UNCHANGED <<raw_data, processed_data, errors, logged_errors, validated, requests,
                   start_time>>
    /\ UNCHANGED <<commits, collection>>
    /\ UNCHANGED <<configVars, peerVars, validateVars, retryVars, clock>>

\* lines 114-116: the commit failure is re-raised into the except clause of main
StoreRaise ==
    /\ pc = "store"
    /\ bpc = "raised"
    /\ stages' = Append(stages, <<"store", "raised">>)
    /\ Except(bw_exc)
    /\ BatchFramePopped
    /\ UNCHANGED <<raw_data, processed_data, stored_count, errors, logged_errors,
                   validated, requests, start_time>>
    /\ UNCHANGED <<commits, collection>>
    /\ UNCHANGED <<configVars, peerVars, validateVars, retryVars, clock>>

\* lines 168-180: the summary of a run that got through the store
Summarize ==
    /\ pc = "summarize"
    /\ summary' = get_execution_summary(Len(raw_data), Len(processed_data), stored_count,
                                        errors, start_time, clock)
    /\ status_code' = 200
    /\ pc' = "done"
    /\ stages' = Append(stages, <<"summarize", "ok">>)
    /\ UNCHANGED <<raw_data, processed_data, stored_count, errors, logged_errors,
                   validated, requests, start_time>>
    /\ UNCHANGED <<configVars, peerVars, validateVars, retryVars, batchVars, clock>>

(***************************************************************************)
(* Initial states and specifications.                                      *)
(***************************************************************************)
\* API_RETRY_DELAY is int(os.environ[...]): any integer, 2 by default
RetryDelays == {-1, 0, DEFAULT_RETRY_DELAY}

MainAt(position) ==
    /\ pc = position
    /\ raw_data = <<>>
    /\ processed_data = <<>>
    /\ stored_count = 0
    /\ errors = <<>>
    /\ summary = <<>>
    /\ status_code = 0
    /\ logged_errors = <<>>
    /\ validated = <<>>
    /\ stages = <<>>
    /\ requests = 0
    /\ start_time = 0
    /\ clock = 0

RetryIdle ==
    /\ rpc = "idle"
    /\ max_attempts = 0
    /\ backoff_factor = 0
    /\ exceptions = {}
    /\ attempt = 0
    /\ delay = 0
    /\ last_exception = NoException
    /\ outcomes = <<>>
    /\ sleeps = <<>>
    /\ result = <<>>
    /\ exc = NoException

BatchIdle ==
    /\ bpc = "idle"
    /\ bw_items = <<>>
    /\ batch_size = 0
    /\ i = 0
    /\ total_written = 0
    /\ commits = <<>>
    /\ bw_ret = <<>>
    /\ bw_exc = NoException
    /\ collection = NoDocs

\* no second invocation
PeerIdle ==
    peer = [bpc |-> "idle", items |-> <<>>, batch_size |-> 0, i |-> 0,
            total_written |-> 0, commits |-> <<>>]

ValidateIdle ==
    /\ vpc = "idle"
    /\ v_data = PyNone
    /\ v_ret = "none"

\* One invocation of main under a configuration read from the environment.
Init ==
    /\ PROJECT_ID \in {"", "my-project"}
    /\ API_RETRY_MAX_ATTEMPTS \in 0..MaxAttempts
    /\ API_RETRY_DELAY \in RetryDelays
    /\ MainAt("start")
    /\ RetryIdle
    /\ BatchIdle
    /\ PeerIdle
    /\ ValidateIdle

Next ==
    \/ ValidateConfig
    \/ InitializeFirestore
    \/ FetchCall
    \/ FetchAttempt
    \/ RetrySleep
    \/ RetryRaiseLast
    \/ FetchReturn
    \/ FetchRaise
    \/ ProcessData
    \/ StoreCall
    \/ BatchCommit
    \/ BatchReturn
    \/ StoreReturn
    \/ StoreRaise
    \/ Summarize

Spec == Init /\ [][Next]_vars

DefaultConfig ==
    /\ PROJECT_ID = "my-project"
    /\ API_RETRY_MAX_ATTEMPTS = MaxAttempts
    /\ API_RETRY_DELAY = DEFAULT_RETRY_DELAY

\* retry_with_backoff called on its own with any arguments; func() returns a
\* value or raises an exception of one of three classes.
ExceptionClasses == {{"Exception"}, {"RequestException"}}

FuncOutcomes ==
    {Returns(<<"value", v>>) : v \in {1, 2}}
        \cup {Raises(e) : e \in {"RequestException", "RateLimited", "KeyboardInterrupt"}}

InitRetry ==
    /\ DefaultConfig
    /\ MainAt("idle")
    /\ BatchIdle
    /\ PeerIdle
    /\ ValidateIdle
    /\ max_attempts \in -1..MaxAttempts
    /\ delay \in RetryDelays
    /\ backoff_factor \in {1, API_RETRY_BACKOFF}
    /\ exceptions \in ExceptionClasses
    /\ rpc = RetryEntry(max_attempts)
    /\ attempt = 1
    /\ last_exception = NoException
    /\ outcomes = <<>>
    /\ sleeps = <<>>
    /\ result = <<>>
    /\ exc = NoException

RetryAttempt ==
    /\ pc = "idle"
    /\ RetryAttemptWith(FuncOutcomes)
    /\ UNCHANGED mainVars

NextRetry ==
    \/ RetryAttempt
    \/ RetrySleep
    \/ RetryRaiseLast

SpecRetry == InitRetry /\ [][NextRetry]_vars

\* batch_write_to_firestore called on its own with any documents and any
\* batch_size >= 1; document j carries post_id ((j - 1) mod m) + 1, so
\* m < n gives repeated keys.
DocumentsOf(n, m) ==
    [j \in 1..n |-> transform_post_data(ValidPost(((j - 1) % m) + 1), j)]

InitBatch ==
    /\ DefaultConfig
    /\ MainAt("idle")
    /\ RetryIdle
    /\ PeerIdle
    /\ ValidateIdle
    /\ \E n \in 0..MaxDocs : \E m \in 1..MaxDocs :
        /\ m <= n \/ m = 1
        /\ bw_items = DocumentsOf(n, m)
    /\ batch_size \in 1..MaxBatch
    /\ bpc = "loop"
    /\ i = 0
    /\ total_written = 0
    /\ commits = <<>>
    /\ bw_ret = <<>>
    /\ bw_exc = NoException
    /\ collection = NoDocs

NextBatch ==
    \/ BatchCommit
    \/ BatchReturn

SpecBatch == InitBatch /\ [][NextBatch]_vars

(***************************************************************************)
(* Properties of retry_with_backoff (under SpecRetry).                     *)
(***************************************************************************)
Last(seq) == seq[Len(seq)]

\* every call of func() so far failed with an exception the except clause catches
AllCaughtFailures ==
    \A j \in 1..Len(outcomes) : ~outcomes[j].ok /\ CaughtBy(outcomes[j].exc, exceptions)

\* C1: when func() first succeeds on attempt k (1 <= k <= max_attempts), the
\* call returns the result of that attempt after exactly k invocations and
\* exactly k - 1 waits, and func() is not invoked again after the success: a
\* success is always the last invocation and ends the call.
C1_ReturnsOnFirstSuccess ==
    /\ \A j \in 1..Len(outcomes) :
        outcomes[j].ok => j = Len(outcomes) /\ rpc = "returned"
    /\ rpc = "returned" =>
        /\ outcomes # <<>>
        /\ Last(outcomes).ok
        /\ result = Last(outcomes).val
        /\ attempt \in 1..max_attempts
        /\ Len(outcomes) = attempt
        /\ Len(sleeps) = attempt - 1

\* func() failed twice and succeeded on the third attempt
C1_Witness ==
    /\ rpc = "returned"
    /\ attempt = 3
    /\ Len(outcomes) = 3
    /\ Len(sleeps) = 2

\* C2: when max_attempts >= 1 and every attempt fails with a retryable
\* failure, func() is invoked exactly max_attempts times, the call waits
\* exactly max_attempts - 1 times and raises the failure of the last attempt.
C2_ExhaustsAllAttempts ==
    (rpc = "raised" /\ max_attempts >= 1 /\ AllCaughtFailures) =>
        /\ Len(outcomes) = max_attempts
        /\ Len(sleeps) = max_attempts - 1
        /\ exc = Last(outcomes).exc

(***************************************************************************)
(* Properties of batch_write_to_firestore (under SpecBatch).               *)
(***************************************************************************)
RECURSIVE CommittedCount(_)
\* the number of documents in the chunks of a commit log that were committed
CommittedCount(log) ==
    IF log = <<>> THEN 0
    ELSE (IF Head(log).ok THEN Len(Head(log).items) ELSE 0) + CommittedCount(Tail(log))

\* C4: the writer is fail-fast across chunks: a failed commit is the last
\* commit the writer attempts, and its failure propagates to the caller.
C4_FailFastAcrossChunks ==
    \A k \in 1..Len(commits) :
        ~commits[k].ok =>
            /\ k = Len(commits)
            /\ bpc = "raised"
            /\ bw_exc # NoException

\* a commit failed while at least one later chunk was still to be written
C4_Witness ==
    /\ bpc = "raised"
    /\ ~Last(commits).ok
    /\ i + batch_size < Len(bw_items)

\* C5 as stated: when the commit of chunk k fails the writer yields, together
\* with the error, a stored count equal to the total size of chunks 1..k-1.
C5_YieldsCountWithError ==
    bpc = "raised" =>
        /\ bw_exc # NoException
        /\ bw_ret = <<CommittedCount(commits)>>

\* C5 amended: when the commit of chunk k fails the writer raises the error
\* and returns no count; its running count total_written is then the total
\* size of chunks 1..k-1, the chunks committed before the failure.
C5_CountsOnlyCommittedChunks ==
    bpc = "raised" =>
        /\ ~Last(commits).ok
        /\ bw_exc # NoException
        /\ bw_ret = <<>>
        /\ total_written = (Len(commits) - 1) * batch_size
        /\ total_written = CommittedCount(commits)

\* 12 documents, batch_size 5: the second commit failed after the first
\* chunk of 5 was committed
C5_Witness ==
    /\ bpc = "raised"
    /\ Len(bw_items) = 12
    /\ batch_size = 5
    /\ Len(commits) = 2
    /\ total_written = 5

\* C6: when all commits succeed the writer issues ceil(n / batch_size)
\* commits; chunk j is the documents (j-1)*batch_size+1 .. min(j*batch_size, n)
\* in input order, so the chunks are consecutive and disjoint, every document
\* is in exactly one chunk, all chunks but the last have batch_size documents
\* and the last has n mod batch_size when that is not zero; n is returned.
C6_ChunksPartitionDocuments ==
    bpc = "returned" =>
        LET n == Len(bw_items)
            chunks == Len(commits)
        IN  /\ chunks * batch_size >= n
            /\ (chunks - 1) * batch_size < n \/ (chunks = 0 /\ n = 0)
            /\ \A k \in 1..chunks :
                /\ commits[k].ok
                /\ commits[k].items =
                       [d \in 1..(Min(k * batch_size, n) - (k - 1) * batch_size) |->
                           bw_items[(k - 1) * batch_size + d]]
                /\ k < chunks => Len(commits[k].items) = batch_size
                /\ (k = chunks /\ n % batch_size # 0) =>
                       Len(commits[k].items) = n % batch_size
            /\ bw_ret = <<n>>

\* 12 documents, batch_size 5: three chunks of 5, 5 and 2 were committed
C6_Witness ==
    /\ bpc = "returned"
    /\ Len(bw_items) = 12
    /\ batch_size = 5
    /\ Len(commits) = 3
    /\ Len(Last(commits).items) = 2

(***************************************************************************)
(* Properties of main (under Spec).                                        *)
(***************************************************************************)
Happened(stage, outcome) == \E k \in 1..Len(stages) : stages[k] = <<stage, outcome>>

\* the number of fetched records that enter validation
Capped(raw) == Min(Len(raw), MAX_ITEMS_TO_PROCESS)

\* positions among the first MAX_ITEMS_TO_PROCESS whose record passes validation
Accepted(raw) == {n \in 1..Capped(raw) : validate_post_data(raw[n]) = "true"}

\* positions among the first MAX_ITEMS_TO_PROCESS whose record is rejected
Rejected(raw) == {n \in 1..Capped(raw) : validate_post_data(raw[n]) # "true"}

RECURSIVE Ascending(_)
Ascending(S) ==
    IF S = {} THEN <<>>
    ELSE LET m == CHOOSE x \in S : \A y \in S : x <= y
         IN  <<m>> \o Ascending(S \ {m})

\* a document without its client timestamp
Untimed(doc) == [doc EXCEPT !.processed_at = <<>>]

\* C3: in a run whose fetch and store succeed, the summary's error list holds
\* one error string for each record among the first MAX_ITEMS_TO_PROCESS that
\* was rejected, and the status is 'partial' when at least one record was
\* rejected and at least one document was stored.
C3_SummaryCarriesRecordErrors ==
    (pc = "done" /\ status_code = 200) =>
        /\ Len(summary.errors) = Cardinality(Rejected(raw_data))
        /\ (Rejected(raw_data) # {} /\ summary.items_stored > 0) =>
               summary.status = "partial"

\* C7: process_data never raises, whatever the records, and returns exactly
\* the documents of the records among the first MAX_ITEMS_TO_PROCESS that
\* pass validation, in their order; every one of those first records is
\* looked at, also after a rejected one.
C7_RecordFailuresNeverAbort ==
    /\ ~Happened("process", "raised")
    /\ Happened("process", "ok") =>
        LET passed == Ascending(Accepted(raw_data)) IN
        /\ Len(processed_data) = Len(passed)
        /\ \A k \in 1..Len(passed) :
            Untimed(processed_data[k])
                = Untimed(transform_post_data(raw_data[passed[k]], 0))
        /\ validated = [n \in 1..Capped(raw_data) |-> n]
        /\ Len(logged_errors) = Cardinality(Rejected(raw_data))

\* a record whose validation raises and one that validation refuses came
\* before records that were processed and stored
C7_Witness ==
    /\ pc = "done"
    /\ status_code = 200
    /\ Len(raw_data) >= 3
    /\ validate_post_data(raw_data[1]) = "raise"
    /\ validate_post_data(raw_data[2]) = "false"
    /\ Len(processed_data) = Len(raw_data) - 2
    /\ stored_count = Len(processed_data)

\* the document ids of the records under the cap that pass validation
StorableIds(raw) == {DocId(transform_post_data(raw[n], 0)) : n \in Accepted(raw)}

\* C8: exactly the first min(L, MAX_ITEMS_TO_PROCESS) records enter
\* validation; a record beyond the cap is never validated, transformed or
\* stored and produces no error entry.
C8_HardCap ==
    Happened("process", "ok") =>
        LET storable == StorableIds(raw_data)
            rejected == Rejected(raw_data)
        IN  /\ validated = [n \in 1..Capped(raw_data) |-> n]
            /\ Len(processed_data) + Len(logged_errors) = Capped(raw_data)
            /\ \A k \in 1..Len(logged_errors) : logged_errors[k][2] \in rejected
            /\ \A k \in 1..Len(processed_data) : DocId(processed_data[k]) \in storable
            /\ \A k \in 1..Len(commits) : \A d \in 1..Len(commits[k].items) :
                DocId(commits[k].items[d]) \in storable
            /\ DOMAIN collection \subseteq storable

\* 11 records were fetched, the one beyond the cap not even a mapping: the
\* first 10 were stored and no error was recorded
C8_Witness ==
    /\ pc = "done"
    /\ status_code = 200
    /\ Len(raw_data) = MAX_ITEMS_TO_PROCESS + 1
    /\ validate_post_data(raw_data[MAX_ITEMS_TO_PROCESS + 1]) = "raise"
    /\ logged_errors = <<>>
    /\ stored_count = MAX_ITEMS_TO_PROCESS
    /\ Cardinality(DOMAIN collection) = MAX_ITEMS_TO_PROCESS

\* a configuration error, a store initialisation failure, a fetch failure or
\* a failed chunk commit occurred
FatalErrorOccurred ==
    \/ PROJECT_ID = ""
    \/ Happened("init", "raised")
    \/ Happened("fetch", "raised")
    \/ (commits # <<>> /\ ~Last(commits).ok)

\* C9: main ends by returning a pair whose summary is a mapping with a
\* 'status' field; the status code is 500 exactly when a fatal error occurred
\* and 200 otherwise, however many records were rejected; a stage that
\* raised has led to the returned pair, so no exception escapes main.
C9_StatusCodeReflectsFatalError ==
    /\ (\E k \in 1..Len(stages) : stages[k][2] = "raised") => pc = "done"
    /\ pc = "done" =>
        /\ "status" \in DOMAIN summary
        /\ status_code \in {200, 500}
        /\ status_code = 500 <=> FatalErrorOccurred

\* every fetched record was rejected and the run still answered 200
C9_Witness ==
    /\ pc = "done"
    /\ status_code = 200
    /\ Len(raw_data) = 2
    /\ Cardinality(Rejected(raw_data)) = 2
    /\ summary.status = "failed"

\* C10: a fetch that succeeds with zero records gives a summary with all
\* counts zero, success_rate 0 and status 'failed', and no chunk commit is
\* issued.
C10_EmptyFetch ==
    (pc = "done" /\ Happened("fetch", "ok") /\ raw_data = <<>>) =>
        /\ status_code = 200
        /\ summary.items_fetched = 0
        /\ summary.items_processed = 0
        /\ summary.items_stored = 0
        /\ summary.success_rate[1] = 0
        /\ summary.status = "failed"
        /\ commits = <<>>
        /\ collection = NoDocs

\* the fetch answered an empty array on its second attempt
C10_Witness ==
    /\ pc = "done"
    /\ Happened("fetch", "ok")
    /\ raw_data = <<>>
    /\ requests = 2
    /\ status_code = 200

(***************************************************************************)
(* validate_post_data called on its own (SpecValidate): the argument is    *)
(* any JSON value of a small family, a mapping with any subset of the four *)
(* fields or a value that is not a mapping.                                *)
(***************************************************************************)
\* values tried for userId and id: integers, booleans, a numeric string, null
IdValues ==
    {PyInt(1), PyInt(7), PyBool(TRUE), PyBool(FALSE), PyStr(<<"1">>), PyNone}

\* values tried for title and body: text, blank text, an integer, null
TextValues ==
    {PyStr(<<" ", "A", " ">>), PyStr(<<" ", "\t">>), PyStr(<<>>), PyInt(3), PyNone}

FullPosts == [userId : IdValues, id : IdValues, title : TextValues, body : TextValues]

CandidateData ==
    {PyDict([k \in D |-> post[k]]) : post \in FullPosts, D \in SUBSET PostFields}
        \cup {PyNone, PyInt(5), PyBool(TRUE), PyStr(<<"a">>)}

InitValidate ==
    /\ DefaultConfig
    /\ MainAt("idle")
    /\ RetryIdle
    /\ BatchIdle
    /\ PeerIdle
    /\ vpc = "call"
    /\ v_data \in CandidateData
    /\ v_ret = "none"

\* the call of validate_post_data(v_data)
ValidatePost ==
    /\ vpc = "call"
    /\ v_ret' = validate_post_data(v_data)
    /\ vpc' = "returned"
    /\ UNCHANGED <<v_data, configVars, mainVars, retryVars, batchVars, clock, peerVars>>

NextValidate == ValidatePost

SpecValidate == InitValidate /\ [][NextValidate]_vars

\* the argument is a mapping with the four required keys whose title and
\* body are non-blank strings
WellFormedButForIds(v) ==
    /\ v.t = "dict"
    /\ DOMAIN v.f = PostFields
    /\ v.f["title"].t = "str" /\ Strip(v.f["title"].s) # <<>>
    /\ v.f["body"].t = "str" /\ Strip(v.f["body"].s) # <<>>

\* an integer that is neither a boolean nor a numeric string
IsProperInteger(v) == v.t = "int"

\* C13: validate_post_data returns false for every record whose userId or id
\* is not an integer, a boolean and a numeric string both counting as not an
\* integer, also when all four keys are present and title and body are
\* non-blank strings.
C13_RejectsNonIntegerIds ==
    (/\ vpc = "returned"
     /\ WellFormedButForIds(v_data)
     /\ ~IsProperInteger(v_data.f["userId"]) \/ ~IsProperInteger(v_data.f["id"]))
        => v_ret = "false"

\* the class the repository raises for an invalid configuration
\* (Config.validate: raise ValueError("Missing required configuration ..."))
ConfigurationErrors == {"ValueError"}

\* C14: retry_with_backoff called with max_attempts <= 0 fails fast with a
\* configuration error, without invoking the operation and without waiting.
C14_FailsFastWithConfigurationError ==
    (max_attempts <= 0 /\ rpc \in {"returned", "raised"})
        => /\ rpc = "raised"
           /\ exc \in ConfigurationErrors
           /\ outcomes = <<>>
           /\ sleeps = <<>>

\* the failure of attempt j is of none of the retryable classes
NotRetryable(j) ==
    /\ ~outcomes[j].ok
    /\ Ancestors(outcomes[j].exc) \cap exceptions = {}

\* C15: a failure of no retryable class raised on attempt j, also for
\* j < max_attempts, propagates at once: it is the last invocation, the call
\* has raised that very failure, no wait followed it (j - 1 waits in all) and
\* the operation has been invoked exactly j times.
C15_NonRetryablePropagatesAtOnce ==
    \A j \in 1..Len(outcomes) :
        NotRetryable(j)
            => /\ j = Len(outcomes)
               /\ attempt = j
               /\ rpc = "raised"
               /\ exc = outcomes[j].exc
               /\ Len(sleeps) = j - 1

C15_Witness ==
    /\ pc = "idle"
    /\ max_attempts = MaxAttempts
    /\ Len(outcomes) = 2
    /\ NotRetryable(2)
    /\ rpc = "raised"

\* C17: with a zero or negative initial_delay, and backoff_factor 1 or any
\* positive factor, a retryable failure on an attempt j < max_attempts is
\* still followed by attempt j + 1: once the wait is over the executor is at
\* an attempt numbered above j.
C17_NonPositiveDelayStillRetries ==
    (pc = "idle" /\ delay <= 0 /\ rpc \notin {"idle", "sleep"})
        => \A j \in 1..Len(outcomes) :
               (/\ ~outcomes[j].ok
                /\ CaughtBy(outcomes[j].exc, exceptions)
                /\ j < max_attempts)
                   => attempt >= j + 1

(***************************************************************************)
(* Two invocations of the job storing into the same collection (SpecTwo).  *)
(* Fetching and processing touch nothing shared, so each invocation is     *)
(* taken from the call of batch_write_to_firestore on: the first in the    *)
(* batch writer's own variables, the second in the record `peer`.  Both    *)
(* have processed the same fetched records, the second PeerLag time units  *)
(* later (PeerLag 0: the very same documents).  Each batch.commit() is one *)
(* atomic step, and the steps of the two interleave freely.                *)
(***************************************************************************)
PeerLags == {0, 100}

\* the documents invocation B made of the records invocation A processed
PeerDocuments(items, lag) ==
    [j \in 1..Len(items) |->
        [items[j] EXCEPT !.processed_at = <<"iso", items[j].processed_at[2] + lag>>]]

InitTwo ==
    /\ DefaultConfig
    /\ MainAt("idle")
    /\ RetryIdle
    /\ ValidateIdle
    /\ \E n \in 0..MAX_ITEMS_TO_PROCESS : \E m \in 1..MAX_ITEMS_TO_PROCESS :
        /\ m <= n \/ m = 1
        /\ bw_items = DocumentsOf(n, m)
    /\ batch_size = BATCH_SIZE
    /\ bpc = "loop"
    /\ i = 0
    /\ total_written = 0
    /\ commits = <<>>
    /\ bw_ret = <<>>
    /\ bw_exc = NoException
    /\ collection = NoDocs
    /\ \E lag \in PeerLags :
        peer = [bpc |-> "loop", items |-> PeerDocuments(bw_items, lag),
                batch_size |-> BATCH_SIZE, i |-> 0, total_written |-> 0,
                commits |-> <<>>]

\* one iteration of the second invocation's for loop (utils.py lines 135-150)
PeerCommit ==
    /\ peer.bpc = "loop"
    /\ peer.i < Len(peer.items)
    /\ LET batch_items == ChunkAt(peer.items, peer.i, peer.batch_size) IN
       \E ok \in BOOLEAN :
        /\ peer' = [peer EXCEPT
                      !.commits = Append(@, [items |-> batch_items, ok |-> ok]),
                      !.bpc = IF ok THEN @ ELSE "raised",
                      !.i = IF ok THEN @ + peer.batch_size ELSE @,
                      !.total_written = WrittenAfter(@, batch_items, ok)]
        /\ collection' = IF ok THEN ApplyBatch(collection, batch_items, clock)
                         ELSE collection
    /\ clock' = clock + 1
    /\ UNCHANGED <<bpc, bw_items, batch_size, i, total_written, commits, bw_ret, bw_exc>>
    /\ UNCHANGED <<configVars, validateVars, mainVars, retryVars>>

\* the second invocation's return total_written
PeerReturn ==
    /\ peer.bpc = "loop"
    /\ peer.i >= Len(peer.items)
    /\ peer' = [peer EXCEPT !.bpc = "returned"]
    /\ UNCHANGED <<configVars, validateVars, mainVars, retryVars, batchVars, clock>>

NextTwo ==
    \/ BatchCommit
    \/ BatchReturn
    \/ PeerCommit
    \/ PeerReturn

SpecTwo == InitTwo /\ [][NextTwo]_vars

\* the document as the invocation handed it to set(), before the server
\* filled in fetched_at
Unstamped(doc) == [doc EXCEPT !.fetched_at = ServerTimestamp]

\* the last document of `items` whose post_id is `id`
LastWithPostId(items, id) ==
    items[CHOOSE j \in 1..Len(items) :
              /\ items[j].post_id = id
              /\ \A l \in (j + 1)..Len(items) : items[l].post_id # id]

PostIds(items) == {items[j].post_id : j \in 1..Len(items)}

BothFinished == bpc = "returned" /\ peer.bpc = "returned"

\* C11: when two invocations over the same fetched records have both
\* finished successfully, whatever the interleaving of their chunk commits,
\* the collection holds exactly one document per distinct post_id, under the
\* key "post_" + post_id, and each is the document one of the two
\* invocations wrote for that key: no duplicate and no missing key.
C11_ConcurrentRunsConverge ==
    BothFinished =>
        /\ Cardinality(DOMAIN collection) = Cardinality(PostIds(bw_items))
        /\ \A id \in PostIds(bw_items) :
            LET key == <<"p", "o", "s", "t", "_">> \o Format(id) IN
            /\ key \in DOMAIN collection
            /\ Unstamped(collection[key]) \in
                   {LastWithPostId(bw_items, id), LastWithPostId(peer.items, id)}

\* both finished, each in two chunks, with the commits interleaved A, B, A, B
\* or B, A, B, A, the two having processed the records at different times
C11_Witness ==
    /\ BothFinished
    /\ Len(commits) = 2 /\ Len(peer.commits) = 2
    /\ peer.items # bw_items
    /\ \E ka, kb \in DOMAIN collection :
        /\ Unstamped(collection[ka]) = LastWithPostId(bw_items, collection[ka].post_id)
        /\ Unstamped(collection[kb]) = LastWithPostId(peer.items, collection[kb].post_id)
        /\ collection[ka].fetched_at # collection[kb].fetched_at

\* the keys a sequence of documents is written under
KeysOf(items) == {DocId(items[j]) : j \in 1..Len(items)}

\* the last document of `items` written under `key`
LastUnderKey(items, key) ==
    items[CHOOSE j \in 1..Len(items) :
              /\ DocId(items[j]) = key
              /\ \A l \in (j + 1)..Len(items) : DocId(items[l]) # key]

\* what a committed chunk does to the collection: every key of the chunk
\* holds the fields of the chunk's last write to it, stamped at commit time;
\* every other key is untouched; the keys are the old ones and the chunk's
UpsertEffect(before, batch_items, after, now) ==
    /\ DOMAIN after = DOMAIN before \cup KeysOf(batch_items)
    /\ KeysOf(batch_items) \subseteq DOMAIN before =>
           Cardinality(DOMAIN after) = Cardinality(DOMAIN before)
    /\ \A key \in DOMAIN after :
        IF key \in KeysOf(batch_items)
        THEN after[key] =
                 [LastUnderKey(batch_items, key) EXCEPT !.fetched_at = <<"ts", now>>]
        ELSE after[key] = before[key]

\* C12: writing is an idempotent upsert.  Every successful chunk commit, of
\* either invocation, leaves under each key it writes exactly one document,
\* holding the fields of the last write, also when the key existed already
\* (from the other run, an earlier chunk or the same chunk), and then the
\* number of keys does not change; and writing the document sequence a
\* second time gives the key set that writing it once gives.
C12_IdempotentUpsert ==
    /\ [][/\ (commits' # commits /\ Last(commits').ok) =>
                 UpsertEffect(collection, Last(commits').items, collection', clock)
          /\ (peer'.commits # peer.commits /\ Last(peer'.commits).ok) =>
                 UpsertEffect(collection, Last(peer'.commits).items, collection', clock)
         ]_vars
    /\ [](bpc = "returned" => KeysOf(bw_items) \subseteq DOMAIN collection)
    /\ []((bpc = "returned" /\ peer.commits = <<>>) => DOMAIN collection = KeysOf(bw_items))
    /\ []((BothFinished /\ peer.items = bw_items) => DOMAIN collection = KeysOf(bw_items))

\* the same sequence has been written twice, and one chunk wrote a key that
\* was there already and that it also wrote twice itself
C12_Witness ==
    /\ BothFinished
    /\ peer.items = bw_items
    /\ Len(commits) = 2
    /\ \E j, l \in 1..BATCH_SIZE : j < l /\ DocId(bw_items[j]) = DocId(bw_items[l])
    /\ KeysOf(commits[2].items) \subseteq KeysOf(commits[1].items)

(***************************************************************************)
(* Further properties of main (under Spec).                                *)
(***************************************************************************)
PipelineStages == <<"fetch", "process", "store", "summarize">>

\* the entries of the stage log for the four pipeline stages
Pipeline ==
    SelectSeq(stages, LAMBDA e : \E k \in 1..Len(PipelineStages) : e[1] = PipelineStages[k])

\* main.py lines 186-191: the keys of the summary built in the except clause
FailureSummaryFields == {"status", "error", "execution_time", "timestamp"}

\* C16: the stages of a run occur in the order FETCH, VALIDATE_TRANSFORM,
\* STORE, SUMMARIZE; nothing is validated and no chunk is committed before
\* the fetch has succeeded; a failure of FETCH or of STORE is the last stage
\* of the run, which is then FAILED with a summary of status 'failed' that
\* carries the triggering error.
C16_StagesInOrder ==
    /\ [](/\ \A k \in 1..Len(Pipeline) : Pipeline[k][1] = PipelineStages[k]
          /\ \A k \in 1..Len(stages) : stages[k][2] = "raised" => k = Len(stages)
          /\ (validated # <<>> \/ commits # <<>> \/ collection # NoDocs)
                 => Happened("fetch", "ok")
          /\ commits # <<>> => Happened("process", "ok")
          /\ Happened("fetch", "raised") =>
                 /\ validated = <<>> /\ commits = <<>> /\ processed_data = <<>>
                 /\ pc = "done" /\ status_code = 500 /\ summary.status = "failed"
          /\ Happened("store", "raised") =>
                 /\ ~Happened("summarize", "ok")
                 /\ pc = "done" /\ status_code = 500 /\ summary.status = "failed")
    /\ [][/\ (pc = "fetch" /\ rpc = "raised") =>
                 (pc' = "done" /\ summary'.error = exc /\ exc # NoException)
          /\ (pc = "store" /\ bpc = "raised") =>
                 (pc' = "done" /\ summary'.error = bw_exc /\ bw_exc # NoException)
          /\ pc = "done" => UNCHANGED vars
         ]_vars

\* the store failed on its second chunk, after fetch and validation had
\* succeeded
C16_Witness ==
    /\ pc = "done"
    /\ stages = <<<<"config", "ok">>, <<"init", "ok">>, <<"fetch", "ok">>,
                  <<"process", "ok">>, <<"store", "raised">>>>
    /\ Len(commits) = 2
    /\ summary.error = "GoogleAPICallError"

\* C18: store writes are not rolled back.  When a run ends FAILED because the
\* commit of chunk k failed, the collection holds the documents of chunks
\* 1..k-1 of the run and none of chunk k or later, and the failure summary
\* returned with status code 500 has no stored count.
C18_NoRollbackNoCount ==
    (pc = "done" /\ Happened("store", "raised")) =>
        LET k == Len(commits)
            kept == SubSeq(processed_data, 1, (k - 1) * BATCH_SIZE)
            lost == SubSeq(processed_data, (k - 1) * BATCH_SIZE + 1, Len(processed_data))
        IN  /\ k >= 1 /\ ~commits[k].ok
            /\ lost # <<>>
            /\ DOMAIN collection = KeysOf(kept)
            /\ \A key \in DOMAIN collection :
                   Unstamped(collection[key]) = LastUnderKey(kept, key)
            /\ KeysOf(lost) \cap DOMAIN collection = {}
            /\ status_code = 500
            /\ DOMAIN summary = FailureSummaryFields

\* the second chunk failed: five documents stay stored, the summary says none
C18_Witness ==
    /\ pc = "done"
    /\ Happened("store", "raised")
    /\ Len(commits) = 2
    /\ Len(processed_data) = MAX_ITEMS_TO_PROCESS
    /\ Cardinality(DOMAIN collection) = BATCH_SIZE
    /\ "items_stored" \notin DOMAIN summary

\* C19: in every summary returned with status code 200, items_stored =
\* items_processed <= min(items_fetched, MAX_ITEMS_TO_PROCESS), so that
\* 0 <= success_rate <= 100; a run that stored fewer documents than it
\* processed does not return 200.
C19_SuccessSummaryAccounts ==
    /\ (pc = "done" /\ status_code = 200) =>
        /\ summary.items_stored = summary.items_processed
        /\ summary.items_processed <= Min(summary.items_fetched, MAX_ITEMS_TO_PROCESS)
        /\ summary.items_fetched = Len(raw_data)
        /\ summary.items_stored = CommittedCount(commits)
        /\ summary.items_stored = Cardinality(DOMAIN collection)
        /\ 0 <= summary.success_rate[1]
        /\ summary.success_rate[1] <= 100 * summary.success_rate[2]
    /\ (pc = "done" /\ CommittedCount(commits) < Len(processed_data)) => status_code # 200

\* eleven records fetched, one rejected among the first ten, nine stored
C19_Witness ==
    /\ pc = "done"
    /\ status_code = 200
    /\ summary.items_fetched = MAX_ITEMS_TO_PROCESS + 1
    /\ summary.items_stored = MAX_ITEMS_TO_PROCESS - 1
    /\ summary.success_rate[1] > 0

(***************************************************************************)
(* Termination of main.  The run is one sequential thread, and every       *)
(* external call (requests.get, time.sleep, batch.commit) returns or       *)
(* raises, so a step that can be taken is taken: weak fairness of Next.    *)
(***************************************************************************)
\* Termination does not depend on which records are rejected, only on how
\* many documents reach the store: the API answers with 0..MaxFetch records,
\* all valid or the first one rejected, or with status 429 or 503.
FewBodies ==
    {ResponseBody(len, bad) :
        len \in 0..MaxFetch, bad \in {<<>>, [n \in {1} |-> "blank_title"]}}

FewResponses ==
    {[status |-> 200, body |-> b] : b \in FewBodies}
        \cup {[status |-> 429, body |-> <<>>], [status |-> 503, body |-> <<>>]}

FetchAttemptFew == FetchAttemptWith(MakeRequestOutcomesOn(FewResponses))

NextFair ==
    \/ ValidateConfig
    \/ InitializeFirestore
    \/ FetchCall
    \/ FetchAttemptFew
    \/ RetrySleep
    \/ RetryRaiseLast
    \/ FetchReturn
    \/ FetchRaise
    \/ ProcessData
    \/ StoreCall
    \/ BatchCommit
    \/ BatchReturn
    \/ StoreReturn
    \/ StoreRaise
    \/ Summarize

SpecFair == Init /\ [][NextFair]_vars /\ WF_vars(NextFair)

\* ceil(n / size)
ChunksNeeded(n, size) == (n + size - 1) \div size

\* C20: every run of main terminates: whatever the fetch attempts and the
\* chunk commits do, the run reaches DONE (200) or FAILED (500); on the way
\* the fetch operation is invoked at most API_RETRY_MAX_ATTEMPTS times and
\* at most ceil(n / BATCH_SIZE) chunk commits are issued for n processed
\* documents.
C20_Terminates ==
    /\ <>(pc = "done" /\ status_code \in {200, 500})
    /\ [](requests <= IF API_RETRY_MAX_ATTEMPTS > 0 THEN API_RETRY_MAX_ATTEMPTS ELSE 0)
    /\ [](Len(commits) <= ChunksNeeded(Len(processed_data), BATCH_SIZE))

\* a run that used every fetch attempt and every chunk commit it may
C20_Witness ==
    /\ pc = "done"
    /\ status_code = 200
    /\ API_RETRY_MAX_ATTEMPTS = MaxAttempts
    /\ requests = MaxAttempts
    /\ Len(processed_data) = MAX_ITEMS_TO_PROCESS - 1
    /\ Len(commits) = ChunksNeeded(MAX_ITEMS_TO_PROCESS - 1, BATCH_SIZE)

====
